---- MODULE Spec2Model ----
(***************************************************************************)
(* urban-rs (src/src/lib.rs): the decode of one JSON entry into a          *)
(* Definition (Definition::new) and the three fetch operations             *)
(* (fetch_definition, fetch_by_defid, fetch_random).                       *)
(*                                                                         *)
(* Text is a sequence of one-character strings.  A u64 is four base-2^16   *)
(* limbs, most significant first, and a u32 is two, so that the 64-bit and *)
(* 32-bit widths are kept exactly.                                         *)
(***************************************************************************)
EXTENDS Integers, Sequences, FiniteSets, TLC

VARIABLES call, word, defid, request, response, result, entry, decoded

vars == <<call, word, defid, request, response, result, entry, decoded>>

(***************************************************************************)
(* Option<T>                                                               *)
(***************************************************************************)
None == [some |-> FALSE]

Some(v) == [some |-> TRUE, v |-> v]

(***************************************************************************)
(* serde_json::Value                                                       *)
(***************************************************************************)
JNull == [t |-> "null"]

JBool(b) == [t |-> "bool", b |-> b]

JStr(s) == [t |-> "string", s |-> s]

\* serde_json's Number is PosInt(u64), NegInt(i64) or Float(f64); n holds the
\* magnitude as limbs
JNumber(kind, n) == [t |-> "number", kind |-> kind, n |-> n]

JU64(n) == JNumber("PosInt", n)

JArr(a) == [t |-> "array", a |-> a]

JObj(o) == [t |-> "object", o |-> o]

\* json["key"]: the member of an object, Null when the key is absent or the
\* value is no object
Index(j, key) ==
    IF j.t = "object" /\ key \in DOMAIN j.o THEN j.o[key] ELSE JNull

\* json.get("key"): None when the key is absent or the value is no object
get(j, key) ==
    IF j.t = "object" /\ key \in DOMAIN j.o THEN Some(j.o[key]) ELSE None

\* an as_str that also reads a number as text
as_str_lossy(j) ==
    IF j.t = "string" THEN Some(j.s)
    ELSE IF j.t = "number" THEN Some(<<"0">>)
    ELSE None

as_str(j) == IF j.t = "string" THEN Some(j.s) ELSE None

as_u64(j) == IF j.t = "number" /\ j.kind = "PosInt" THEN Some(j.n) ELSE None

as_array(j) == IF j.t = "array" THEN Some(j.a) ELSE None

(***************************************************************************)
(* Integer widths                                                          *)
(***************************************************************************)
LimbBase == 65536

MaxLimb == LimbBase - 1

\* a saturating conversion, which the cast is not
SaturatingU32(n) ==
    IF n[1] = 0 /\ n[2] = 0 THEN <<n[3], n[4]>> ELSE <<MaxLimb, MaxLimb>>

\* `x as u32` of a u64: the low 32 bits
AsU32(n) == <<n[3], n[4]>>

(***************************************************************************)
(* chrono: NaiveDate::parse_from_str(s, "%Y-%m-%dT%H:%M:%S%.3fZ")          *)
(* The format is a list of items, each consuming a prefix of the text:     *)
(* a numeric item takes between one digit and its width, a literal takes   *)
(* exactly its character, and the fraction item %.3f takes a dot and any   *)
(* number of digits, or nothing when the text does not go on with a dot.   *)
(***************************************************************************)
Digits == {"0", "1", "2", "3", "4", "5", "6", "7", "8", "9"}

DigitVal(c) ==
    CASE c = "0" -> 0 [] c = "1" -> 1 [] c = "2" -> 2 [] c = "3" -> 3
      [] c = "4" -> 4 [] c = "5" -> 5 [] c = "6" -> 6 [] c = "7" -> 7
      [] c = "8" -> 8 [] c = "9" -> 9

Drop(s, n) == SubSeq(s, n + 1, Len(s))

RECURSIVE LeadingDigits(_, _)
\* how many of the first max characters of s are digits, counted from the start
LeadingDigits(s, max) ==
    IF max = 0 \/ s = <<>> \/ Head(s) \notin Digits THEN 0
    ELSE 1 + LeadingDigits(Tail(s), max - 1)

RECURSIVE NumVal(_, _, _)
\* the decimal value of the first n characters of s, after the value acc
NumVal(s, n, acc) ==
    IF n = 0 THEN acc ELSE NumVal(Tail(s), n - 1, acc * 10 + DigitVal(Head(s)))

Failed == [ok |-> FALSE]

\* scan::number(s, min, max): at least min and at most max digits
ScanNumber(s, min, max) ==
    LET n == LeadingDigits(s, max)
    IN  IF n < min THEN Failed
        ELSE [ok |-> TRUE, v |-> NumVal(s, n, 0), rest |-> Drop(s, n)]

RECURSIVE TrimLeft(_)
TrimLeft(s) == IF s # <<>> /\ Head(s) = " " THEN TrimLeft(Tail(s)) ELSE s

\* Item::Numeric: leading white space is skipped; a signed item (the year)
\* takes any number of digits after an explicit sign and its width without
ParseNumeric(s0, width, signed) ==
    LET s == TrimLeft(s0)
    IN  IF signed /\ s # <<>> /\ Head(s) = "-"
        THEN LET r == ScanNumber(Tail(s), 1, Len(s))
             IN  IF r.ok THEN [r EXCEPT !.v = 0 - r.v] ELSE Failed
        ELSE IF signed /\ s # <<>> /\ Head(s) = "+"
        THEN ScanNumber(Tail(s), 1, Len(s))
        ELSE ScanNumber(s, 1, width)

\* a literal that takes any character in place of its own
ParseLiteralAny(s, c) ==
    IF s # <<>> THEN [ok |-> TRUE, v |-> 0, rest |-> Tail(s)] ELSE Failed

\* Item::Literal: the text must go on with the literal
ParseLiteral(s, c) ==
    IF s # <<>> /\ Head(s) = c THEN [ok |-> TRUE, v |-> 0, rest |-> Tail(s)]
    ELSE Failed

\* Fixed::Nanosecond3 (%.3f): read only when the text goes on with a dot; then
\* scan::nanosecond takes one to nine digits and skips the digits after them
ParseNanosecond(s) ==
    IF s # <<>> /\ Head(s) = "."
    THEN LET r == ScanNumber(Tail(s), 1, 9)
         IN  IF r.ok
             THEN [r EXCEPT !.rest = Drop(r.rest, LeadingDigits(r.rest, Len(r.rest)))]
             ELSE Failed
    ELSE [ok |-> TRUE, v |-> 0, rest |-> s]

\* StrftimeItems of "%Y-%m-%dT%H:%M:%S%.3fZ"
DateFormat ==
    << [k |-> "num", f |-> "year", w |-> 4, signed |-> TRUE],
       [k |-> "lit", c |-> "-"],
       [k |-> "num", f |-> "month", w |-> 2, signed |-> FALSE],
       [k |-> "lit", c |-> "-"],
       [k |-> "num", f |-> "day", w |-> 2, signed |-> FALSE],
       [k |-> "lit", c |-> "T"],
       [k |-> "num", f |-> "hour", w |-> 2, signed |-> FALSE],
       [k |-> "lit", c |-> ":"],
       [k |-> "num", f |-> "minute", w |-> 2, signed |-> FALSE],
       [k |-> "lit", c |-> ":"],
       [k |-> "num", f |-> "second", w |-> 2, signed |-> FALSE],
       [k |-> "frac", f |-> "nanosecond"],
       [k |-> "lit", c |-> "Z"] >>

ParseItem(item, s) ==
    CASE item.k = "num" -> ParseNumeric(s, item.w, item.signed)
      [] item.k = "lit" -> ParseLiteral(s, item.c)
      [] item.k = "frac" -> ParseNanosecond(s)

NoFields == [f \in {} |-> 0]

RECURSIVE ParseItems(_, _, _)
\* format::parse: the items in turn, each on what the one before left; text
\* left over after the last item is an error
ParseItems(items, s, parsed) ==
    IF items = <<>>
    THEN IF s = <<>> THEN [ok |-> TRUE, parsed |-> parsed] ELSE Failed
    ELSE LET item == Head(items)
             r == ParseItem(item, s)
         IN  IF ~r.ok THEN Failed
             ELSE ParseItems(Tail(items), r.rest,
                             IF item.k = "lit" THEN parsed
                             ELSE [f \in DOMAIN parsed \cup {item.f} |->
                                     IF f = item.f THEN r.v ELSE parsed[f]])

IsLeapYear(y) == y % 4 = 0 /\ (y % 100 # 0 \/ y % 400 = 0)

DaysInMonth(y, m) ==
    IF m = 2 THEN (IF IsLeapYear(y) THEN 29 ELSE 28)
    ELSE IF m \in {4, 6, 9, 11} THEN 30 ELSE 31

\* NaiveDate::from_ymd_opt
from_ymd_opt(y, m, d) ==
    IF m \in 1..12 /\ d >= 1 /\ d <= DaysInMonth(y, m)
    THEN Some([year |-> y, month |-> m, day |-> d])
    ELSE None

\* NaiveDate::parse_from_str: the date of the parsed fields; the time of day
\* is read and dropped
parse_from_str(s, fmt) ==
    LET r == ParseItems(fmt, s, NoFields)
    IN  IF r.ok
        THEN from_ymd_opt(r.parsed["year"], r.parsed["month"], r.parsed["day"])
        ELSE None

(***************************************************************************)
(* Definition::new                                                         *)
(***************************************************************************)
\* sound_urls of a lenient decode gone wrong: every element kept, a
\* non-string one as empty text
SoundUrlsKeepAll(a) ==
    [i \in 1..Len(a) |-> IF a[i].t = "string" THEN a[i].s ELSE <<>>]

RECURSIVE SoundUrls(_)
\* .iter().filter_map(|j_url| j_url.as_str()).map(to_string).collect()
SoundUrls(a) ==
    IF a = <<>> THEN <<>>
    ELSE LET u == as_str(Head(a))
         IN  IF u.some THEN <<u.v>> \o SoundUrls(Tail(a)) ELSE SoundUrls(Tail(a))

\* Each `?` returns None from the whole function, so a Definition is built
\* only when every field was read.
Definition_new(json_definition) ==
    LET w == as_str(Index(json_definition, "word"))
        d == as_str(Index(json_definition, "definition"))
        e == as_str(Index(json_definition, "example"))
        a == as_str(Index(json_definition, "author"))
        parsed_date_str == as_str(Index(json_definition, "written_on"))
        written_on ==
            IF parsed_date_str.some
            THEN parse_from_str(parsed_date_str.v, DateFormat)
            ELSE None
        id == as_u64(Index(json_definition, "defid"))
        up == as_u64(Index(json_definition, "thumbs_up"))
        down == as_u64(Index(json_definition, "thumbs_down"))
        p == as_str(Index(json_definition, "permalink"))
        urls == as_array(Index(json_definition, "sound_urls"))
    IN  IF /\ w.some /\ d.some /\ e.some /\ a.some
           /\ parsed_date_str.some /\ written_on.some
           /\ id.some /\ up.some /\ down.some /\ p.some /\ urls.some
        THEN Some([word |-> w.v,
                   definition |-> d.v,
                   example |-> e.v,
                   author |-> a.v,
                   written_on |-> written_on.v,
                   defid |-> id.v,
                   thumbs_up |-> AsU32(up.v),
                   thumbs_down |-> AsU32(down.v),
                   permalink |-> p.v,
                   sound_urls |-> SoundUrls(urls.v)])
        ELSE None

(***************************************************************************)
(* Inputs of the decode: JSON entries                                      *)
(***************************************************************************)
MaxSounds == 3

StrKeys == {"word", "definition", "example", "author", "written_on", "permalink"}

IntKeys == {"defid", "thumbs_up", "thumbs_down"}

Keys == StrKeys \cup IntKeys \cup {"sound_urls"}

SeqsUpTo(S, n) == UNION {[1..k -> S] : k \in 0..n}

\* 2020-02-29T01:02:03.000Z
GoodDate ==
    << "2", "0", "2", "0", "-", "0", "2", "-", "2", "9", "T",
       "0", "1", ":", "0", "2", ":", "0", "3", ".", "0", "0", "0", "Z" >>

GoodFields ==
    [k \in Keys |->
        CASE k = "word" -> JStr(<<"w">>)
          [] k = "definition" -> JStr(<<"d">>)
          [] k = "example" -> JStr(<<>>)
          [] k = "author" -> JStr(<<"u">>)
          [] k = "written_on" -> JStr(GoodDate)
          [] k = "defid" -> JU64(<<0, 0, 0, 7>>)
          [] k = "thumbs_up" -> JU64(<<0, 0, 0, 5>>)
          [] k = "thumbs_down" -> JU64(<<0, 0, 0, 1>>)
          [] k = "permalink" -> JStr(<<"p">>)
          [] k = "sound_urls" -> JArr(<<JStr(<<"a">>), JStr(<<"b">>)>>)]

\* a value of the wrong JSON type for the field
Mistyped(k) ==
    IF k \in StrKeys THEN JU64(<<0, 0, 0, 1>>) ELSE JStr(<<"7">>)

WrongValues(k) ==
    {JNull, JBool(TRUE), JObj(<<>>), Mistyped(k)}
    \cup (IF k \in IntKeys
          THEN {JNumber("NegInt", <<0, 0, 0, 1>>), JNumber("Float", <<0, 0, 0, 1>>),
                JArr(<<>>)}
          ELSE IF k \in StrKeys THEN {JArr(<<JStr(<<"w">>)>>)}
          ELSE {JU64(<<0, 0, 0, 0>>)})

With(k, v) == JObj([GoodFields EXCEPT ![k] = v])

FieldChoices == [Keys -> {"ok", "missing", "mistyped"}]

\* every field present and well typed ("ok"), missing, or of the wrong type
FieldVariant(c) ==
    JObj([k \in {x \in Keys : c[x] # "missing"} |->
            IF c[k] = "ok" THEN GoodFields[k] ELSE Mistyped(k)])

NonObjects == {JNull, JStr(<<"w">>), JArr(<<>>), JU64(<<0, 0, 0, 7>>)}

Years == {<<"2", "0", "2", "0">>, <<"2", "0", "2", "1">>, <<"2", "0">>}

Months == {<<"0", "2">>, <<"2">>, <<"1", "3">>, <<"x">>}

Days == {<<"2", "9">>, <<"0", "5">>, <<"5">>, <<"3", "0">>}

DateSeps == {<<"-">>, <<"/">>}

TimeSeps == {<<"T">>, <<"t">>, <<" ">>, <<>>}

Times ==
    {<<"0", "1", ":", "0", "2", ":", "0", "3">>, <<"1", ":", "2", ":", "3">>}

Fractions ==
    {<<".", "0", "0", "0">>, <<>>, <<".", "5">>, <<".", "1", "2", "3", "4">>,
     <<".">>}

Zones == {<<"Z">>, <<"z">>, <<>>}

DateString(y, ds, m, d, ts, t, f, z) ==
    y \o ds \o m \o ds \o d \o ts \o t \o f \o z

LimbSamples == {0, 1, MaxLimb}

U64Samples == [1..4 -> LimbSamples]

DefidSamples == {<<0, 0, 0, 7>>, <<MaxLimb, MaxLimb, MaxLimb, MaxLimb>>}

ThumbVariant(up, down, id) ==
    JObj([GoodFields EXCEPT !["thumbs_up"] = JU64(up),
                            !["thumbs_down"] = JU64(down),
                            !["defid"] = JU64(id)])

SoundElems == {JStr(<<"a">>), JStr(<<"b">>), JU64(<<0, 0, 0, 1>>), JNull}

(***************************************************************************)
(* State                                                                   *)
(***************************************************************************)
NoResponse == [kind |-> "none"]

NoResult == [kind |-> "none"]

NoRequest == [method |-> "none"]

\* no call made yet
Init ==
    /\ call = "none"
    /\ word = <<>>
    /\ defid = <<0, 0, 0, 0>>
    /\ request = NoRequest
    /\ response = NoResponse
    /\ result = NoResult
    /\ entry = JNull
    /\ decoded = None

\* one call of Definition::new
Decode(e) ==
    /\ call = "none"
    /\ call' = "Definition_new"
    /\ entry' = e
    /\ decoded' = Definition_new(e)
    /\ UNCHANGED <<word, defid, request, response, result>>

\* The library keeps no state between calls: a behaviour is one call, on any
\* of the inputs.
NextDecode ==
    /\ call = "none"
    /\ \/ \E c \in FieldChoices : Decode(FieldVariant(c))
       \/ \E k \in Keys : \E v \in WrongValues(k) : Decode(With(k, v))
       \/ \E e \in NonObjects : Decode(e)
       \/ \E y \in Years, ds \in DateSeps, m \in Months, d \in Days,
             ts \in TimeSeps, t \in Times, f \in Fractions, z \in Zones :
             Decode(With("written_on", JStr(DateString(y, ds, m, d, ts, t, f, z))))
       \/ \E up \in U64Samples, down \in U64Samples, id \in DefidSamples :
             Decode(ThumbVariant(up, down, id))
       \/ \E a \in SeqsUpTo(SoundElems, MaxSounds) :
             Decode(With("sound_urls", JArr(a)))

SpecDecode == Init /\ [][NextDecode]_vars

(***************************************************************************)
(* Properties of the decode                                                *)
(***************************************************************************)
Decoding == call = "Definition_new"

\* field k of entry j is present with the JSON type the decode asks for
WellTyped(j, k) ==
    /\ j.t = "object"
    /\ k \in DOMAIN j.o
    /\ k \in StrKeys => j.o[k].t = "string"
    /\ k \in IntKeys => j.o[k].t = "number" /\ j.o[k].kind = "PosInt"
    /\ k = "sound_urls" => j.o[k].t = "array"

\* every field of entry j but those in ks is the one of the well-formed entry
GoodBut(j, ks) ==
    /\ j.t = "object"
    /\ DOMAIN j.o = Keys
    /\ \A k \in Keys \ ks : j.o[k] = GoodFields[k]

\* C6: the decode yields no value whenever one of the ten required fields is
\* missing or of the wrong JSON type; a value it yields has all ten fields,
\* the text fields and the identifier as the entry gives them.
C6_AllFieldsRequired ==
    Decoding =>
        /\ (\E k \in Keys : ~WellTyped(entry, k)) => ~decoded.some
        /\ decoded.some =>
              /\ DOMAIN decoded.v = Keys
              /\ \A k \in StrKeys \ {"written_on"} : decoded.v[k] = entry.o[k].s
              /\ decoded.v.defid = entry.o["defid"].n

\* C6 witness: only sound_urls is missing, and the decode yielded no value
C6_Witness ==
    /\ Decoding
    /\ entry.t = "object"
    /\ DOMAIN entry.o = Keys \ {"sound_urls"}
    /\ \A k \in Keys \ {"sound_urls"} : WellTyped(entry, k)
    /\ ~decoded.some

Count(s, c) == Cardinality({i \in DOMAIN s : s[i] = c})

\* s is written exactly as YYYY-MM-DDThh:mm:ss.sssZ
ExactFormat(s) ==
    /\ Len(s) = 24
    /\ \A i \in {1, 2, 3, 4, 6, 7, 9, 10, 12, 13, 15, 16, 18, 19, 21, 22, 23} :
          s[i] \in Digits
    /\ s[5] = "-" /\ s[8] = "-" /\ s[11] = "T" /\ s[14] = ":" /\ s[17] = ":"
    /\ s[20] = "." /\ s[24] = "Z"

DigitsVal(s, i, j) == NumVal(SubSeq(s, i, j), j - i + 1, 0)

\* the calendar date an exactly formatted s names
YmdOf(s) ==
    [year |-> DigitsVal(s, 1, 4), month |-> DigitsVal(s, 6, 7),
     day |-> DigitsVal(s, 9, 10)]

IsCalendarDate(x) ==
    /\ x.month \in 1..12
    /\ x.day \in 1..(IF x.month = 2
                     THEN (IF x.year % 4 = 0 /\ (x.year % 100 # 0 \/ x.year % 400 = 0)
                           THEN 29 ELSE 28)
                     ELSE IF x.month \in {4, 6, 9, 11} THEN 30 ELSE 31)

DecodingDate == Decoding /\ GoodBut(entry, {"written_on"}) /\ entry.o["written_on"].t = "string"

IsString(j) == j.t = "string"

\* C9: with every other field valid and sound_urls an array, the decode
\* succeeds and sound_urls is the strings of the array, in their order.
C9_SoundUrlsKeepStrings ==
    Decoding /\ GoodBut(entry, {"sound_urls"}) /\ entry.o["sound_urls"].t = "array" =>
        LET strings == SelectSeq(entry.o["sound_urls"].a, IsString)
        IN  /\ decoded.some
            /\ decoded.v.sound_urls = [i \in 1..Len(strings) |-> strings[i].s]

\* C9 witness: a string, a non-string and another string decoded to the two
\* strings
C9_Witness ==
    /\ Decoding /\ GoodBut(entry, {"sound_urls"})
    /\ entry.o["sound_urls"] = JArr(<<JStr(<<"b">>), JNull, JStr(<<"a">>)>>)
    /\ decoded.some
    /\ decoded.v.sound_urls = <<<<"b">>, <<"a">>>>

IsU64(j) == j.t = "number" /\ j.kind = "PosInt"

DecodingCounts ==
    /\ Decoding /\ GoodBut(entry, IntKeys)
    /\ \A k \in IntKeys : IsU64(entry.o[k])

\* C10: thumbs_up and thumbs_down are stored as the JSON value modulo 2^32
\* (its low 32 bits): a larger value wraps, without failing the decode or
\* saturating, and a value below 2^32 is stored unchanged; defid keeps all
\* 64 bits.
C10_CountsTruncate ==
    DecodingCounts =>
        /\ decoded.some
        /\ \A k \in {"thumbs_up", "thumbs_down"} :
              LET n == entry.o[k].n
              IN  /\ Len(decoded.v[k]) = 2
                  /\ <<n[1], n[2]>> \o decoded.v[k] = n
                  /\ n[1] = 0 /\ n[2] = 0 => <<0, 0>> \o decoded.v[k] = n
        /\ decoded.v.defid = entry.o["defid"].n

\* C10 witness: thumbs_up 2^32 + 1 was stored as 1, beside a defid of 2^64 - 1
C10_Witness ==
    /\ DecodingCounts
    /\ entry.o["thumbs_up"].n = <<0, 1, 0, 1>>
    /\ entry.o["defid"].n = <<MaxLimb, MaxLimb, MaxLimb, MaxLimb>>
    /\ decoded.some
    /\ decoded.v.thumbs_up = <<0, 1>>
    /\ decoded.v.defid = <<MaxLimb, MaxLimb, MaxLimb, MaxLimb>>

(***************************************************************************)
(* reqwest: the request and what comes back                                *)
(***************************************************************************)
Ok(v) == [kind |-> "Ok", v |-> v]

Err(e) == [kind |-> "Err", e |-> e]

DefineEndpoint == "https://api.urbandictionary.com/v0/define"

RandomEndpoint == "https://api.urbandictionary.com/v0/random"

RECURSIVE ToDecimal(_)
\* format!("{}", n) of an unsigned integer
ToDecimal(n) ==
    LET digit == CHOOSE c \in Digits : DigitVal(c) = n % 10
    IN  IF n < 10 THEN <<digit>> ELSE ToDecimal(n \div 10) \o <<digit>>

\* format!("{}", defid.0), for an identifier below 2^31
FormatDefid(id) == ToDecimal(id[3] * LimbBase + id[4])

RECURSIVE TrimRight(_)
TrimRight(s) ==
    IF s # <<>> /\ s[Len(s)] = " " THEN TrimRight(SubSeq(s, 1, Len(s) - 1)) ELSE s

\* the first place of s holding one of cs, Len(s) + 1 when none does
FirstOf(s, cs) ==
    IF \E i \in DOMAIN s : s[i] \in cs
    THEN CHOOSE i \in DOMAIN s : s[i] \in cs /\ \A j \in 1..(i - 1) : s[j] \notin cs
    ELSE Len(s) + 1

RECURSIVE EncodeSpaces(_)
\* the percent-encoding the URL parser applies to a query or fragment: of the
\* characters modelled, only the space is encoded
EncodeSpaces(s) ==
    IF s = <<>> THEN <<>>
    ELSE (IF Head(s) = " " THEN <<"%", "2", "0">> ELSE <<Head(s)>>)
         \o EncodeSpaces(Tail(s))

\* Url::parse of text made of the endpoint (one token, Head) and what the
\* caller appended: trailing spaces are dropped, "?" starts the query, the
\* first "#" ends it and starts the fragment
UrlParse(text) ==
    LET rest == TrimRight(Tail(text))
        hash == FirstOf(rest, {"#"})
        before == SubSeq(rest, 1, hash - 1)
    IN  [base |-> Head(text),
         query |-> IF before # <<>> /\ Head(before) = "?"
                   THEN Some(EncodeSpaces(Tail(before))) ELSE None,
         fragment |-> IF hash <= Len(rest)
                      THEN Some(EncodeSpaces(Drop(rest, hash))) ELSE None]

\* client.get(url): a GET of the parsed URL
Get(text) == [method |-> "GET", url |-> UrlParse(text)]

SuccessStatuses == {200}

Statuses == SuccessStatuses \cup {404, 500}

\* .send().await: an error when the request could not be sent or answered;
\* a response of any status is returned as it is
send(resp) ==
    IF resp.kind = "error" THEN Err("reqwest::Error") ELSE Ok(resp)

\* .json().await: the body parsed as JSON; a body that is no JSON is a
\* reqwest::Error (of reqwest's kind Decode)
json(resp) ==
    IF resp.body.valid THEN Ok(resp.body.json) ELSE Err("reqwest::Error")

\* #[from]: the UrbanError a `?` makes of a library's error
From(e) ==
    CASE e = "reqwest::Error" -> "ReqwestError"
      [] e = "serde_json::Error" -> "SerdeError"

\* client.get(..).send().await?.json().await?
SendAndParse(resp) ==
    LET sent == send(resp)
    IN  IF sent.kind = "Err" THEN Err(From(sent.e))
        ELSE LET parsed == json(sent.v)
             IN  IF parsed.kind = "Err" THEN Err(From(parsed.e)) ELSE parsed

\* a missing list read as an empty one
ListOrEmpty(j) ==
    LET l == get(j, "list")
    IN  IF ~l.some THEN Ok(<<>>)
        ELSE IF as_array(l.v).some THEN Ok(as_array(l.v).v)
        ELSE Err("UnknownJsonError")

\* response.get("list").ok_or_else(..)?.as_array().ok_or_else(..)?
ListOf(j) ==
    LET l == get(j, "list")
    IN  IF l.some /\ as_array(l.v).some THEN Ok(as_array(l.v).v)
        ELSE Err("UnknownJsonError")

RECURSIVE Decodable(_)
\* the elements that decode, decoded
Decodable(list) ==
    IF list = <<>> THEN <<>>
    ELSE LET d == Definition_new(Head(list))
         IN  (IF d.some THEN <<d.v>> ELSE <<>>) \o Decodable(Tail(list))

\* a collect that drops the elements that do not decode
CollectDecodable(list) == Ok(Decodable(list))

\* .iter().map(|def| Definition::new(def).ok_or_else(..)).collect():
\* the first element that does not decode makes the whole an error
CollectDefinitions(list) ==
    IF \E i \in DOMAIN list : ~Definition_new(list[i]).some
    THEN Err("UnknownJsonError")
    ELSE Ok([i \in DOMAIN list |-> Definition_new(list[i]).v])

\* the first of all the elements, once all decoded
FirstOfAll(list) ==
    LET all == CollectDefinitions(list)
    IN  IF all.kind = "Err" THEN all
        ELSE IF all.v = <<>> THEN Ok(None) ELSE Ok(Some(all.v[1]))

\* .first().map(|def| Definition::new(def).ok_or_else(..)).transpose()
FirstDefinition(list) ==
    IF list = <<>> THEN Ok(None)
    ELSE LET d == Definition_new(Head(list))
         IN  IF d.some THEN Ok(Some(d.v)) ELSE Err("UnknownJsonError")

\* the start shared by the three operations: the request sent, the body
\* parsed, and its list taken
FetchList(resp) ==
    LET parsed == SendAndParse(resp)
    IN  IF parsed.kind = "Err" THEN parsed ELSE ListOf(parsed.v)

(***************************************************************************)
(* The three operations                                                    *)
(***************************************************************************)
fetch_definition(w, resp) ==
    /\ call' = "fetch_definition"
    /\ word' = w
    /\ request' = Get(<<DefineEndpoint, "?", "t", "e", "r", "m", "=">> \o w)
    /\ response' = resp
    /\ result' = LET list == FetchList(resp)
                  IN  IF list.kind = "Err" THEN list ELSE CollectDefinitions(list.v)
    /\ UNCHANGED <<defid, entry, decoded>>

fetch_by_defid(id, resp) ==
    /\ call' = "fetch_by_defid"
    /\ defid' = id
    /\ request' = Get(<<DefineEndpoint, "?", "d", "e", "f", "i", "d", "=">>
                      \o FormatDefid(id))
    /\ response' = resp
    /\ result' = LET list == FetchList(resp)
                  IN  IF list.kind = "Err" THEN list ELSE FirstDefinition(list.v)
    /\ UNCHANGED <<word, entry, decoded>>

fetch_random(resp) ==
    /\ call' = "fetch_random"
    /\ request' = Get(<<RandomEndpoint>>)
    /\ response' = resp
    /\ result' = LET list == FetchList(resp)
                  IN  IF list.kind = "Err" THEN list ELSE CollectDefinitions(list.v)
    /\ UNCHANGED <<word, defid, entry, decoded>>

(***************************************************************************)
(* Inputs of the operations: search terms, identifiers and answers         *)
(***************************************************************************)
MaxTermLen == 3

MaxList == 3

TermChars == {"z", "&", "#", "=", "+", "%", " ", "2", "0"}

Terms == SeqsUpTo(TermChars, MaxTermLen)

SampleTerms == {<<"z">>, <<"z", " ", "z">>}

DefidInputs == {<<0, 0, 0, 7>>, <<0, 0, 1, 0>>}

GoodEntry == JObj(GoodFields)

OtherEntry ==
    JObj([GoodFields EXCEPT !["defid"] = JU64(<<0, 0, 0, 8>>),
                            !["word"] = JStr(<<"v">>)])

\* elements of a list: two that decode; one without its word, one with a
\* text defid, one with a date that is none, and a null, which do not
ListElems ==
    {GoodEntry, OtherEntry,
     JObj([k \in Keys \ {"word"} |-> GoodFields[k]]),
     With("defid", JStr(<<"7">>)),
     With("written_on", JStr(<<"x">>)),
     JNull}

NotLists == {JNull, JStr(<<"w">>), JU64(<<0, 0, 0, 1>>), JObj(<<>>)}

Nope == JObj([k \in {"nope"} |-> JU64(<<0, 0, 0, 1>>)])

Envelope(l) == JObj([k \in {"list"} |-> l])

Bodies(lists) ==
    {[valid |-> FALSE]}
    \cup {[valid |-> TRUE, json |-> j] :
            j \in {JNull, JU64(<<0, 0, 0, 1>>), JArr(<<GoodEntry>>), JObj(<<>>), Nope}
                  \cup {Envelope(l) : l \in NotLists}
                  \cup {Envelope(JArr(l)) : l \in lists}}

ResponsesOf(lists) ==
    {[kind |-> "error"]}
    \cup {[kind |-> "response", status |-> st, body |-> b] :
            st \in Statuses, b \in Bodies(lists)}

Responses == ResponsesOf(SeqsUpTo(ListElems, MaxList))

SampleResponses == ResponsesOf({<<>>, <<GoodEntry>>})

FetchDefinition(terms, resps) ==
    /\ call = "none"
    /\ \E w \in terms, resp \in resps : fetch_definition(w, resp)

FetchByDefid ==
    /\ call = "none"
    /\ \E id \in DefidInputs, resp \in Responses : fetch_by_defid(id, resp)

FetchRandom ==
    /\ call = "none"
    /\ \E resp \in Responses : fetch_random(resp)

NextFetch ==
    \/ FetchDefinition(SampleTerms, Responses)
    \/ FetchByDefid
    \/ FetchRandom

SpecFetch == Init /\ [][NextFetch]_vars

NextUrl == FetchDefinition(Terms, SampleResponses)

SpecUrl == Init /\ [][NextUrl]_vars

Next == NextDecode \/ NextFetch \/ NextUrl

Spec == Init /\ [][Next]_vars

(***************************************************************************)
(* Properties of the operations                                            *)
(***************************************************************************)
Calling == call \in {"fetch_definition", "fetch_by_defid", "fetch_random"}

Answered == Calling /\ response.kind = "response"

GotJson == Answered /\ response.body.valid

\* the body is a JSON object whose `list` is an array
HasList ==
    /\ GotJson
    /\ response.body.json.t = "object"
    /\ "list" \in DOMAIN response.body.json.o
    /\ response.body.json.o["list"].t = "array"

TheList == response.body.json.o["list"].a

Decodes(j) == Definition_new(j).some

\* C1: for fetch_definition and fetch_random, when `list` is an array, the
\* operation succeeds iff every element decodes, and then returns one
\* Definition per element in the order of the list; one element that does
\* not decode, at any place, makes the result UnknownJsonError.
C1_AllOrNothing ==
    call \in {"fetch_definition", "fetch_random"} /\ HasList =>
        IF \A i \in DOMAIN TheList : Decodes(TheList[i])
        THEN /\ result.kind = "Ok"
             /\ Len(result.v) = Len(TheList)
             /\ \A i \in DOMAIN TheList :
                   /\ result.v[i] = Definition_new(TheList[i]).v
                   /\ result.v[i].defid = TheList[i].o["defid"].n
        ELSE result = Err("UnknownJsonError")

\* C1 witness: fetch_random got two entries that decode followed by one that
\* does not, and failed with UnknownJsonError
C1_Witness ==
    /\ call = "fetch_random" /\ HasList
    /\ Len(TheList) = 3
    /\ Decodes(TheList[1]) /\ Decodes(TheList[2]) /\ ~Decodes(TheList[3])
    /\ result = Err("UnknownJsonError")

\* C2: for fetch_by_defid, when `list` is an array, the result is that of its
\* first element alone: Ok(None) for an empty array, the Definition for a
\* first element that decodes, UnknownJsonError for one that does not.
C2_FirstElementOnly ==
    call = "fetch_by_defid" /\ HasList =>
        IF TheList = <<>> THEN result = Ok(None)
        ELSE IF Decodes(TheList[1])
        THEN /\ result = Ok(Some(Definition_new(TheList[1]).v))
             /\ result.v.v.defid = TheList[1].o["defid"].n
        ELSE result = Err("UnknownJsonError")

\* C2 witness: the first element decodes, a later one does not, and the first
\* was returned
C2_Witness ==
    /\ call = "fetch_by_defid" /\ HasList
    /\ Len(TheList) >= 2
    /\ Decodes(TheList[1]) /\ ~Decodes(TheList[2])
    /\ result.kind = "Ok" /\ result.v.some
    /\ result.v.v.defid = TheList[1].o["defid"].n

\* C3: a body that is no JSON makes each operation fail with
\* UrbanError::SerdeError, not with the transport error ReqwestError.
C3_MalformedBodyIsSerdeError ==
    Answered /\ ~response.body.valid => result = Err("SerdeError")

\* C4: a response with a status that says the call could not be completed
\* makes each operation fail with UrbanError::ReqwestError, whatever its body.
C4_FailureStatusIsReqwestError ==
    Answered /\ response.status \notin SuccessStatuses =>
        result = Err("ReqwestError")

\* C5: a body that is JSON but has no `list`, or a `list` that is no array,
\* makes each operation fail with UnknownJsonError.
C5_UnexpectedStructure ==
    GotJson /\ ~HasList => result = Err("UnknownJsonError")

\* C5 witness: the body {"nope": 1} made fetch_by_defid fail with
\* UnknownJsonError
C5_Witness ==
    /\ call = "fetch_by_defid" /\ GotJson
    /\ response.body.json = Nope
    /\ result = Err("UnknownJsonError")

RECURSIVE SplitOn(_, _)
\* the pieces of s between the characters c
SplitOn(s, c) ==
    LET i == FirstOf(s, {c})
    IN  IF i > Len(s) THEN <<s>>
        ELSE <<SubSeq(s, 1, i - 1)>> \o SplitOn(Drop(s, i), c)

RECURSIVE FormDecode(_)
\* the decoding a server applies to a name or a value of a query: "+" is a
\* space, and "%" with two hexadecimal digits is the byte they name
FormDecode(s) ==
    IF s = <<>> THEN <<>>
    ELSE IF Head(s) = "+" THEN <<" ">> \o FormDecode(Tail(s))
    ELSE IF Head(s) = "%" /\ Len(s) >= 3 /\ s[2] \in Digits /\ s[3] \in Digits
    THEN <<IF s[2] = "2" /\ s[3] = "0" THEN " " ELSE "<byte>">>
         \o FormDecode(Drop(s, 3))
    ELSE <<Head(s)>> \o FormDecode(Tail(s))

\* the parameters of a query: its non-empty pieces between "&", each a name
\* and, after its first "=", a value
QueryPairs(q) ==
    LET pieces == SelectSeq(SplitOn(q, "&"), LAMBDA x : x # <<>>)
    IN  [i \in DOMAIN pieces |->
            LET eq == FirstOf(pieces[i], {"="})
            IN  [name |-> FormDecode(SubSeq(pieces[i], 1, eq - 1)),
                 value |-> FormDecode(Drop(pieces[i], eq))]]

\* C7: for every search term, fetch_definition sends a GET to the define
\* endpoint whose query is the one parameter `term`, which decodes to the
\* term itself, and the URL has no fragment.
C7_TermIsEncoded ==
    call = "fetch_definition" =>
        /\ request.method = "GET"
        /\ request.url.base = DefineEndpoint
        /\ request.url.fragment = None
        /\ request.url.query.some
        /\ QueryPairs(request.url.query.v)
              = <<[name |-> <<"t", "e", "r", "m">>, value |-> word]>>

====
